---------------------------- MODULE Spec2Model ----------------------------
(***************************************************************************)
(* CallMediaQueue (src/telecom/src/queue.ts, first class of the file,      *)
(* lines 19-226): a bounded FIFO of outbound media/mark messages, drained  *)
(* one message per setTimeout callback, with the delay of each callback    *)
(* taken from the play duration of the media packet sent before it.        *)
(* The socket's 'message' handler, which emits 'mark' for an inbound mark  *)
(* echo, and the close of the socket, for which the class registers no     *)
(* handler, are part of the model.                                         *)
(*                                                                         *)
(* Numbers.  A JavaScript number is [kind |-> "num", n, d, ulp]: for       *)
(* ulp = 0 the rational n/d in lowest terms (d > 0), which is then a       *)
(* double; for ulp = 1 the double next above n/d, and for ulp = -1 the     *)
(* double next below it.  NaN is [kind |-> "nan"]; a value whose typeof is *)
(* not 'number' is [kind |-> "str"].  The arithmetic that gives            *)
(* packetDuration, and that of Math.floor(sample * volume), is done in     *)
(* binary64 with round-to-nearest-even (RoundBits, FloatDiv, FloatMul);    *)
(* the arguments of setVolume and setBufferLimit that are tried are        *)
(* doubles.  0 has ulp = 0.                                                *)
(*                                                                         *)
(* Strings.  A base64 payload string is the sequence of its characters,    *)
(* each character given by its index 0..63 in the base64 alphabet, 64      *)
(* standing for the padding character '='.  A Buffer is the sequence of    *)
(* its bytes 0..255.                                                       *)
(***************************************************************************)
EXTENDS Integers, Sequences, FiniteSets, TLC

VARIABLES
    queue,            \* this.queue: SocketMessage[]
    isSending,        \* this.isSending
    packetDuration,   \* this.packetDuration (ms)
    volumeLevel,      \* this.volumeLevel
    bufferLimit,      \* this.bufferLimit
    timers,           \* pending setTimeout callbacks: the sequence of their delays
    sent,             \* the messages the last call or callback handed to socket.send
    outcome,          \* how the last call or callback ended
    offered,          \* history: number of media()/mark() calls made so far
    lastSentId,       \* history: offer number of the last queue item handed to socket.send
    lastMedia,        \* history: payload of the last media message with a non-empty
                      \*          payload handed to socket.send
    pacedBy,          \* history: the same, but forgotten (<<>>) each time sendNext
                      \*          finds the queue empty
    clearMark,        \* history: value of offered when clear() last handed over its message
    emitted,          \* the arguments of the 'mark' events the last call or callback emitted
    detached          \* history: the socket has closed

vars == <<queue, isSending, packetDuration, volumeLevel, bufferLimit, timers,
          sent, outcome, offered, lastSentId, lastMedia, pacedBy, clearMark,
          emitted, detached>>

-----------------------------------------------------------------------------
(* Bounds of the model *)

\* media()/mark() calls in one behaviour
MaxOffers == 3
\* largest valid argument of setBufferLimit that is tried
MaxLimit == 2
\* media()/mark() calls in one behaviour of the burst scenario
BurstOffers == 5
\* the capacity set in the burst scenario
BurstCapacity == 2
\* media()/mark() calls in one behaviour of the argument-checking scenario
ConfigOffers == 2
\* media()/mark() calls in one behaviour of the rounding scenario
RoundingOffers == 2

-----------------------------------------------------------------------------
(* JavaScript numbers *)

RECURSIVE Gcd(_, _)
Gcd(a, b) == IF b = 0 THEN a ELSE Gcd(b, a % b)

Abs(x) == IF x < 0 THEN -x ELSE x

\* the rational n/d (d > 0) in lowest terms
Num(n, d) ==
    LET g == Gcd(Abs(n), d)
    IN  [kind |-> "num", n |-> n \div g, d |-> d \div g, ulp |-> 0]

\* the integer n
Whole(n) == [kind |-> "num", n |-> n, d |-> 1, ulp |-> 0]

NaN == [kind |-> "nan", n |-> 0, d |-> 1, ulp |-> 0]

\* a value that is not of type 'number'
NotANumber == [kind |-> "str", n |-> 0, d |-> 1, ulp |-> 0]

IsNumberType(x) == x.kind \in {"num", "nan"}

\* x < y, x > y, x >= y of JavaScript: false as soon as one side is NaN
Lt(x, y) ==
    /\ x.kind = "num"
    /\ y.kind = "num"
    /\ \/ x.n * y.d < y.n * x.d
       \/ x.n * y.d = y.n * x.d /\ x.ulp < y.ulp
Gt(x, y) == Lt(y, x)
Ge(x, y) == x.kind = "num" /\ y.kind = "num" /\ ~Lt(x, y)

\* Math.min / Math.max: NaN if either argument is NaN
MathMin(x, y) == IF x.kind = "nan" \/ y.kind = "nan" THEN NaN
                 ELSE IF Lt(y, x) THEN y ELSE x
MathMax(x, y) == IF x.kind = "nan" \/ y.kind = "nan" THEN NaN
                 ELSE IF Lt(x, y) THEN y ELSE x

-----------------------------------------------------------------------------
(* Doubles: the arithmetic of / and * on JavaScript numbers.  A positive   *)
(* double is [m, e]: m its significand of Precision bits, the first one 1, *)
(* written as four limbs, TopBits bits in the first and LimbBits in each   *)
(* of the others; its value is m, read as one integer, times 2^e.          *)
(* Overflow and subnormal numbers do not occur for the lengths of a        *)
(* payload.  The operations are functions, which TLC applies to the value  *)
(* of their arguments, whatever the expression the application stands in.  *)

\* bits of the significand of a double
Precision == 53

\* bits of a limb; a divisor or factor is at most 2^LimbBits, so that no
\* step of a division or multiplication leaves 31 bits
LimbBits == 15

\* bits of the first limb of a significand
TopBits == Precision - 3 * LimbBits

Base == 2 ^ LimbBits

\* sequences of limbs, and the records that doubles are among
Limbs == Seq(Nat)
Doubles == [m : Limbs, e : Int]

\* number of bits of the integer 0 <= n < 2^30
Width(n) == CHOOSE w \in 0..30 : n < 2 ^ w /\ (w = 0 \/ 2 ^ (w - 1) <= n)

\* limb i of the limbs X, which go on with zeros
Limb(X, i) == IF i <= Len(X) THEN X[i] ELSE 0

\* the len <= LimbBits bits of the limbs X after its first k bits
Field(X, k, len) ==
    LET i   == k \div LimbBits + 1
        o   == k % LimbBits
        two == Limb(X, i) * Base + Limb(X, i + 1)
    IN  (two \div (2 ^ (2 * LimbBits - o - len))) % (2 ^ len)

\* the double next above x
NextUp ==
    [x \in Doubles |->
        LET s4 == x.m[4] + 1
            s3 == x.m[3] + s4 \div Base
            s2 == x.m[2] + s3 \div Base
            s1 == x.m[1] + s2 \div Base
        IN  IF s1 = 2 ^ TopBits
            THEN [m |-> <<2 ^ (TopBits - 1), 0, 0, 0>>, e |-> x.e + 1]
            ELSE [m |-> <<s1, s2 % Base, s3 % Base, s4 % Base>>, e |-> x.e]]

\* the double next below x
NextDown ==
    [x \in Doubles |->
        IF x.m = <<2 ^ (TopBits - 1), 0, 0, 0>>
        THEN [m |-> <<2 ^ TopBits - 1, Base - 1, Base - 1, Base - 1>>, e |-> x.e - 1]
        ELSE LET s4 == x.m[4] - 1
                 s3 == x.m[3] - (IF s4 < 0 THEN 1 ELSE 0)
                 s2 == x.m[2] - (IF s3 < 0 THEN 1 ELSE 0)
                 s1 == x.m[1] - (IF s2 < 0 THEN 1 ELSE 0)
             IN  [m |-> <<s1, (s2 + Base) % Base, (s3 + Base) % Base, (s4 + Base) % Base>>,
                  e |-> x.e]]

\* the significand of limbs X, not all 0, that have zeros zero bits before
\* their first bit 1: the Precision bits from that bit on
Kept ==
    [X \in Limbs, zeros \in Nat |->
        <<Field(X, zeros, TopBits),
          Field(X, zeros + TopBits, LimbBits),
          Field(X, zeros + TopBits + LimbBits, LimbBits),
          Field(X, zeros + TopBits + 2 * LimbBits, LimbBits)>>]

\* the double nearest to X * 2^e (plus, if inexact, a fraction of 2^e that
\* is not 0) for limbs X that are not all 0, ties going to the even
\* significand
RoundBits ==
    [X \in Limbs, e \in Int, inexact \in BOOLEAN |->
        LET top    == CHOOSE i \in 1..Len(X) : X[i] # 0 /\ \A j \in 1..(i - 1) : X[j] = 0
            \* zero bits before the first bit 1 of X
            zeros  == top * LimbBits - Width(X[top])
            kept   == [m |-> Kept[X, zeros],
                       e |-> e + Len(X) * LimbBits - zeros - Precision]
            half   == Field(X, zeros + Precision, 1) = 1
            sticky == inexact \/ \E j \in 0..Len(X) :
                                    Field(X, zeros + Precision + 1 + j * LimbBits, LimbBits) # 0
        IN  IF half /\ (sticky \/ kept.m[4] % 2 = 1) THEN NextUp[kept] ELSE kept]

\* the integer 0 < n < 2^30 as a double
FloatOf == [n \in Nat |-> RoundBits[<<n \div Base, n % Base>>, 0, FALSE]]

\* x / c for a double x > 0 and an integer 0 < c <= 2^LimbBits, by long
\* division, a limb at a time
FloatDiv ==
    [x \in Doubles, c \in Nat |->
        LET t1 == x.m[1]
            t2 == (t1 % c) * Base + x.m[2]
            t3 == (t2 % c) * Base + x.m[3]
            t4 == (t3 % c) * Base + x.m[4]
            t5 == (t4 % c) * Base
            t6 == (t5 % c) * Base
        IN  RoundBits[<<t1 \div c, t2 \div c, t3 \div c, t4 \div c, t5 \div c, t6 \div c>>,
                      x.e - 2 * LimbBits, t6 % c # 0]]

\* x * c for a double x > 0 and an integer 0 < c <= 2^LimbBits, a limb at a
\* time from the last one
FloatMul ==
    [x \in Doubles, c \in Nat |->
        LET p4 == x.m[4] * c
            p3 == x.m[3] * c + p4 \div Base
            p2 == x.m[2] * c + p3 \div Base
            p1 == x.m[1] * c + p2 \div Base
        IN  RoundBits[<<p1 \div Base, p1 % Base, p2 % Base, p3 % Base, p4 % Base>>,
                      x.e, FALSE]]

\* the double n/d, for 0 < n < 2^30 and d a power of 2
Near ==
    [n \in Nat, d \in Nat |->
        LET whole == FloatOf[n]
        IN  [m |-> whole.m, e |-> whole.e - (Width(d) - 1)]]

\* the double x (ulp = 0), the one next above it (ulp = 1) or the one next
\* below it (ulp = -1)
Neighbour ==
    [x \in Doubles, ulp \in Int |->
        IF ulp = 0 THEN x ELSE IF ulp = 1 THEN NextUp[x] ELSE NextDown[x]]

\* the double n/d (d a power of 2), or the one next above it (ulp = 1) or
\* next below it (ulp = -1)
DoubleOf == [n \in Nat, d \in Nat, ulp \in Int |-> Neighbour[Near[n, d], ulp]]

\* the double x, known to be n/d (d a power of 2) or one of the two doubles
\* next to it, as a number
NumberOf ==
    [x \in Doubles, n \in Nat, d \in Nat |->
        LET exact == Num(n, d)
        IN  [exact EXCEPT !.ulp = CHOOSE k \in {-1, 0, 1} :
                                      x = DoubleOf[exact.n, exact.d, k]]]

\* zero bits before the significand in its first limb
LeadBits == LimbBits - TopBits

\* Math.floor(x) for a double x > 0, or 2^(2 * LimbBits) if it is more
WholePart ==
    [x \in Doubles |->
        LET bits == Precision + x.e      \* bits of the significand before the point
        IN  IF bits <= 0 THEN 0
            ELSE IF bits <= LimbBits THEN Field(x.m, LeadBits, bits)
            ELSE IF bits <= 2 * LimbBits
                 THEN Field(x.m, LeadBits, bits - LimbBits) * Base
                          + Field(x.m, LeadBits + bits - LimbBits, LimbBits)
            ELSE 2 ^ (2 * LimbBits)]

\* the double x > 0 is no integer below 2^(2 * LimbBits)
HasFraction ==
    [x \in Doubles |->
        LET bits == Precision + x.e
        IN  \/ bits <= 0
            \/ /\ bits <= 2 * LimbBits
               /\ \E j \in 0..3 : Field(x.m, LeadBits + bits + j * LimbBits, LimbBits) # 0]

\* Math.floor(x) for a double x > 0, Math.floor(-x) if negative; beyond
\* 2^(2 * LimbBits) on either side, that bound
FloorOf ==
    [x \in Doubles, negative \in BOOLEAN |->
        IF negative THEN -(WholePart[x] + (IF HasFraction[x] THEN 1 ELSE 0))
        ELSE WholePart[x]]

\* Math.floor(s * x) for an integer s with |s| <= 2^LimbBits and the number
\* x = n/d or a double next to it, each of * and Math.floor giving a double
FloorOfProduct ==
    [s \in Int, n \in Int, d \in Nat, ulp \in Int |->
        IF s = 0 \/ n = 0 THEN 0
        ELSE \* |s * x| first: the rounding of * is symmetric about 0
             FloorOf[FloatMul[DoubleOf[Abs(n), d, IF n < 0 THEN -ulp ELSE ulp], Abs(s)],
                     (s < 0) # (n < 0)]]

\* Math.min(Math.max(v, -32768), 32767)
Clip == [v \in Int |-> IF v < -32768 THEN -32768 ELSE IF v > 32767 THEN 32767 ELSE v]

-----------------------------------------------------------------------------
(* Buffers and base64 *)

\* the padding character '='
Pad == 64

\* number of characters of str before its first padding character
DataLen(str) ==
    LET pads == {i \in 1..Len(str) : str[i] = Pad}
    IN  IF pads = {} THEN Len(str)
        ELSE (CHOOSE i \in pads : \A j \in pads : i <= j) - 1

\* Buffer.from(str, 'base64'): every 4 characters give 3 bytes, a tail of 2
\* characters gives 1 byte, a tail of 3 gives 2, and a single trailing
\* character gives none; the unused low bits of the tail are discarded
Base64Decode(str) ==
    LET n    == DataLen(str)
        r    == n % 4
        len  == 3 * (n \div 4) + (IF r = 2 THEN 1 ELSE IF r = 3 THEN 2 ELSE 0)
        c(i) == IF i <= n THEN str[i] ELSE 0
        byte(k) ==
            LET g == 4 * ((k - 1) \div 3)
                p == (k - 1) % 3
            IN  IF p = 0 THEN c(g + 1) * 4 + c(g + 2) \div 16
                ELSE IF p = 1 THEN (c(g + 2) % 16) * 16 + c(g + 3) \div 4
                ELSE (c(g + 3) % 4) * 64 + c(g + 4)
    IN  [k \in 1..len |-> byte(k)]

\* buf.toString('base64'): every 3 bytes give 4 characters, the last group
\* is padded with '='
Base64Encode(buf) ==
    LET n    == Len(buf)
        b(i) == IF i <= n THEN buf[i] ELSE 0
        char(j) ==
            LET g == 3 * ((j - 1) \div 4)
                p == (j - 1) % 4
            IN  IF p = 0 THEN b(g + 1) \div 4
                ELSE IF p = 1 THEN (b(g + 1) % 4) * 16 + b(g + 2) \div 16
                ELSE IF p = 2 THEN IF g + 2 > n THEN Pad
                                   ELSE (b(g + 2) % 16) * 4 + b(g + 3) \div 64
                ELSE IF g + 3 > n THEN Pad ELSE b(g + 3) % 64
    IN  [j \in 1..(4 * ((n + 2) \div 3)) |-> char(j)]

\* buf.readInt16LE(i), i counted from 0
ReadInt16LE(buf, i) ==
    LET u == buf[i + 1] + 256 * buf[i + 2]
    IN  IF u >= 32768 THEN u - 65536 ELSE u

\* the two bytes buf.writeInt16LE(v, i) stores, for v in -32768..32767
Int16LE(v) == <<v % 256, (v % 65536) \div 256>>

\* the PCM16 samples of a buffer, a trailing odd byte left out
SamplesOf(buf) == [k \in 1..(Len(buf) \div 2) |-> ReadInt16LE(buf, 2 * (k - 1))]

\* the buffer holding the given PCM16 samples
BufferOf(samples) ==
    [i \in 1..(2 * Len(samples)) |-> Int16LE(samples[(i + 1) \div 2])[2 - (i % 2)]]

-----------------------------------------------------------------------------
(* Audio format, set by the constructor *)

channels == 1
sampleRate == 16000
bytesPerSample == 2
DefaultBufferLimit == 1000

\* Math.floor(sample * volume), clipped to the int16 range; NaN is stored as 0
ScaleSample(sample, volume) ==
    IF volume.kind # "num" THEN 0
    ELSE Clip[FloorOfProduct[sample, volume.n, volume.d, volume.ulp]]

\* adjustVolume(audioData) with this.volumeLevel = volume
adjustVolume(audioData, volume) ==
    IF volume = Whole(1) THEN audioData
    ELSE [i \in 1..Len(audioData) |->
            LET k == 2 * ((i - 1) \div 2)      \* offset of the sample holding byte i
            IN  IF k + 1 < Len(audioData)
                THEN Int16LE(ScaleSample(ReadInt16LE(audioData, k), volume))[i - k]
                ELSE 0]

\* packetDuration for a payload buffer of length bytes:
\*   numberOfSamples = length / (channels * bytesPerSample)
\*   packetDuration  = (numberOfSamples / sampleRate) * 1000
\* each / and * rounded to a double; the result is length * 1000 /
\* (channels * bytesPerSample * sampleRate) or a double next to it
DurationOfLength(length) ==
    IF length = 0 THEN Whole(0)
    ELSE LET numberOfSamples == FloatDiv[FloatOf[length], channels * bytesPerSample]
             seconds         == FloatDiv[numberOfSamples, sampleRate]
         IN  NumberOf[FloatMul[seconds, 1000],
                      length * 1000, channels * bytesPerSample * sampleRate]

\* the duration sendNext derives from the base64 payload of a media message
PacketDurationOf(payload) == DurationOfLength(Len(Base64Decode(payload)))

-----------------------------------------------------------------------------
(* Inputs tried *)

\* n samples of value v, as the base64 text of their PCM16LE bytes
Tone(n, v) == Base64Encode(BufferOf([k \in 1..n |-> v]))

\* the unpadded three characters "IE5" (the two bytes of the sample 20000,
\* 1/16 ms of audio, whose canonical text is "IE4="), and the empty string
Payloads == {<<8, 4, 57>>, <<>>}

\* 640 bytes (20 ms) and 320 bytes (10 ms) of audio
Packet640 == Tone(320, 20000)
Packet320 == Tone(160, 20000)

ScenarioPayloads == {Packet640, Packet320}

\* 2002 bytes of audio: 1001/16 ms, for which the division by 16000 and the
\* multiplication by 1000 give the double next below
Packet2002 == Tone(1001, 20000)

MarkNames == {"chunk1"}

\* arguments of setVolume: 0, 1/2, 1, and 3/2, which it rejects
Volumes == {Whole(0), Num(1, 2), Whole(1), Num(3, 2)}

\* arguments of setBufferLimit: 0..MaxLimit, and -1, which it rejects
Limits == {Whole(n) : n \in -1..MaxLimit}

\* An inbound socket message, as far as the 'message' handler looks at it:
\*   text   "json" if JSON.parse accepts it, "garbage" if JSON.parse raises
\*   data   what it parses to: "object" or "null"
\*   event  data.event, "" if there is none
\*   mark   data.mark: "object" or "absent"
\*   name   data.mark.name: defined or not, and its value
Inbound(text, data, event, mark, defined, value) ==
    [text |-> text, data |-> data, event |-> event, mark |-> mark,
     name |-> [defined |-> defined, value |-> value]]

\* {"event":"mark","mark":{"name":"chunk1"}}
MarkEcho == Inbound("json", "object", "mark", "object", TRUE, "chunk1")

InboundMessages ==
    { MarkEcho,
      Inbound("garbage", "null", "", "absent", FALSE, ""),       \* not JSON
      Inbound("json", "null", "", "absent", FALSE, ""),          \* null
      Inbound("json", "object", "", "absent", FALSE, ""),        \* {}
      Inbound("json", "object", "media", "absent", FALSE, ""),   \* {"event":"media"}
      Inbound("json", "object", "stop", "object", TRUE, "chunk1"),
      Inbound("json", "object", "mark", "absent", FALSE, ""),    \* {"event":"mark"}
      Inbound("json", "object", "mark", "object", FALSE, "") }   \* {"event":"mark","mark":{}}

\* what socket.send is given for a queue item or for clear's message, and
\* whether the call returned (ok) or raised
sendToTwilio(m, ok) ==
    [event |-> m.event, id |-> m.id, payload |-> m.payload, name |-> m.name, ok |-> ok]

\* a queue item: the SocketMessage media() or mark() builds, with the number
\* of the call that offered it (id) and the payload as the caller gave it (raw)
MediaMessage(id, payload) ==
    [id |-> id, event |-> "media", payload |-> payload, name |-> "", raw |-> payload]
MarkMessage(id, name) ==
    [id |-> id, event |-> "mark", payload |-> <<>>, name |-> name, raw |-> <<>>]
ClearMessage ==
    [id |-> 0, event |-> "clear", payload |-> <<>>, name |-> "", raw |-> <<>>]

-----------------------------------------------------------------------------
(* The session *)

Init ==
    /\ queue = <<>>
    /\ isSending = FALSE
    /\ packetDuration = Whole(0)
    /\ volumeLevel = Whole(1)
    /\ bufferLimit = Whole(DefaultBufferLimit)
    /\ timers = <<>>
    /\ sent = <<>>
    /\ outcome = "ok"
    /\ offered = 0
    /\ lastSentId = 0
    /\ lastMedia = <<>>
    /\ pacedBy = <<>>
    /\ clearMark = 0
    /\ emitted = <<>>
    /\ detached = FALSE

\* processNext() without the test of isSending
processNextUnguarded(q, sending, duration, pending) ==
    IF Len(q) > 0
    THEN [isSending |-> TRUE, timers |-> Append(pending, duration)]
    ELSE [isSending |-> sending, timers |-> pending]

\* processNext() on the given queue, flag, duration and pending timers: the
\* flag and the pending timers after it
processNext(q, sending, duration, pending) ==
    IF ~sending /\ Len(q) > 0
    THEN [isSending |-> TRUE, timers |-> Append(pending, duration)]
    ELSE [isSending |-> sending, timers |-> pending]

\* the test of enqueue with > in place of >=
BufferFullOffByOne(q, limit) == Gt(Whole(Len(q)), limit)

\* the test that makes enqueue drop the packet
BufferFull(q, limit) == Ge(Whole(Len(q)), limit)

\* the message enqueue pushes for mediaData
Adjusted(mediaData, volume) ==
    IF volume = Whole(1) /\ mediaData.event = "media"
    THEN [mediaData EXCEPT
            !.payload = Base64Encode(adjustVolume(Base64Decode(@), volume))]
    ELSE mediaData

\* enqueue(mediaData) that makes room by evicting the oldest packet
enqueueEvictOldest(mediaData) ==
    /\ offered' = mediaData.id
    /\ sent' = <<>>
    /\ emitted' = <<>>
    /\ UNCHANGED detached
    /\ outcome' = "ok"
    /\ UNCHANGED <<volumeLevel, bufferLimit, lastSentId, lastMedia, pacedBy, clearMark,
                   packetDuration>>
    /\ LET kept == IF BufferFull(queue, bufferLimit) /\ queue # <<>>
                   THEN Tail(queue) ELSE queue
           q == Append(kept, Adjusted(mediaData, volumeLevel))
           p == processNext(q, isSending, packetDuration, timers)
       IN  /\ queue' = q
           /\ isSending' = p.isSending
           /\ timers' = p.timers

\* enqueue(mediaData)
enqueue(mediaData) ==
    /\ offered' = mediaData.id
    /\ sent' = <<>>
    /\ emitted' = <<>>
    /\ UNCHANGED detached
    /\ UNCHANGED <<volumeLevel, bufferLimit, lastSentId, lastMedia, pacedBy, clearMark>>
    /\ IF BufferFull(queue, bufferLimit)
       THEN /\ outcome' = "dropped"
            /\ UNCHANGED <<queue, isSending, packetDuration, timers>>
       ELSE LET q == Append(queue, Adjusted(mediaData, volumeLevel))
                p == processNext(q, isSending, packetDuration, timers)
            IN  /\ queue' = q
                /\ isSending' = p.isSending
                /\ timers' = p.timers
                /\ outcome' = "ok"
                /\ UNCHANGED packetDuration

\* media(payload), while fewer than max offers have been made
media(payload, max) ==
    /\ offered < max
    /\ enqueue(MediaMessage(offered + 1, payload))

\* mark(name), while fewer than max offers have been made
mark(name, max) ==
    /\ offered < max
    /\ enqueue(MarkMessage(offered + 1, name))

\* queue.pop() in place of queue.shift()
Popped(q) == [item |-> q[Len(q)], rest |-> SubSeq(q, 1, Len(q) - 1)]

\* queue[0] read in place of queue.shift(): the item stays in the queue
Peeked(q) == [item |-> Head(q), rest |-> q]

\* the item sendNext takes off the queue, and what it leaves
Shifted(q) == [item |-> Head(q), rest |-> Tail(q)]

\* socketMessage?.media?.payload is truthy
HasPayload(m) == m.event = "media" /\ m.payload # <<>>

\* the duration taken from the length of the base64 text instead of the
\* length of the decoded buffer
DurationFromWireLength(item, duration) ==
    IF HasPayload(item)
    THEN Num(Len(item.payload) * 1000, channels * bytesPerSample * sampleRate)
    ELSE duration

\* packetDuration set to 0 by an item that carries no audio
DurationResetWithoutAudio(item, duration) ==
    IF HasPayload(item) THEN PacketDurationOf(item.payload) ELSE Whole(0)

\* packetDuration once sendNext has looked at the item it took
DurationAfter(item, duration) ==
    IF HasPayload(item) THEN PacketDurationOf(item.payload) ELSE duration

\* sendNext(), run by the i-th pending timer; ok: socket.send returns
\* rather than raises
sendNext(i, ok) ==
    /\ i \in DOMAIN timers
    /\ emitted' = <<>>
    /\ UNCHANGED <<volumeLevel, bufferLimit, offered, clearMark, detached>>
    /\ LET pending == [j \in 1..(Len(timers) - 1) |->
                          IF j < i THEN timers[j] ELSE timers[j + 1]]
       IN  IF Len(queue) = 0
           THEN /\ ok
                /\ isSending' = FALSE
                /\ packetDuration' = Whole(0)
                /\ timers' = pending
                /\ sent' = <<>>
                /\ pacedBy' = <<>>
                /\ outcome' = "ok"
                /\ UNCHANGED <<queue, lastSentId, lastMedia>>
           ELSE LET s == Shifted(queue)
                    d == DurationAfter(s.item, packetDuration)
                    p == processNext(s.rest, FALSE, d, pending)
                IN  /\ queue' = s.rest
                    /\ packetDuration' = d
                    /\ sent' = <<sendToTwilio(s.item, ok)>>
                    /\ lastSentId' = s.item.id
                    /\ lastMedia' = IF HasPayload(s.item) THEN s.item.payload
                                    ELSE lastMedia
                    /\ pacedBy' = IF HasPayload(s.item) THEN s.item.payload
                                  ELSE pacedBy
                    /\ IF ok
                       THEN /\ isSending' = p.isSending
                            /\ timers' = p.timers
                            /\ outcome' = "ok"
                       ELSE \* caught and logged: nothing after the send runs
                            /\ timers' = pending
                            /\ outcome' = "caught"
                            /\ UNCHANGED isSending

\* a pending setTimeout callback runs
TimerFires == \E i \in DOMAIN timers, ok \in BOOLEAN : sendNext(i, ok)

\* the queue clearQueue() leaves
clearQueue == <<>>

\* clear(); ok: socket.send returns rather than raises
clear(ok) ==
    /\ sent' = <<sendToTwilio(ClearMessage, ok)>>
    /\ clearMark' = offered
    /\ emitted' = <<>>
    /\ UNCHANGED <<isSending, packetDuration, volumeLevel, bufferLimit, timers,
                   offered, lastSentId, lastMedia, pacedBy, detached>>
    /\ IF ok
       THEN queue' = clearQueue /\ outcome' = "ok"
       ELSE \* the exception leaves clear() before clearQueue()
            outcome' = "error" /\ UNCHANGED queue

\* setVolume(volume) raises
VolumeRejected(volume) ==
    ~IsNumberType(volume) \/ Lt(volume, Whole(0)) \/ Gt(volume, Whole(1))

\* setVolume(volume)
setVolume(volume) ==
    /\ sent' = <<>>
    /\ emitted' = <<>>
    /\ UNCHANGED <<queue, isSending, packetDuration, bufferLimit, timers, offered,
                   lastSentId, lastMedia, pacedBy, clearMark, detached>>
    /\ IF VolumeRejected(volume)
       THEN outcome' = "error" /\ UNCHANGED volumeLevel
       ELSE /\ volumeLevel' = MathMax(Whole(0), MathMin(Whole(1), volume))
            /\ outcome' = "ok"

\* the test of setBufferLimit without the typeof test
LimitRejectedNegativeOnly(limit) == Lt(limit, Whole(0))

\* setBufferLimit(limit) raises
LimitRejected(limit) == ~IsNumberType(limit) \/ Lt(limit, Whole(0))

\* setBufferLimit(limit) that cuts the queue down to the new limit
setBufferLimitEvicting(limit) ==
    /\ sent' = <<>>
    /\ emitted' = <<>>
    /\ UNCHANGED <<isSending, packetDuration, volumeLevel, timers, offered,
                   lastSentId, lastMedia, pacedBy, clearMark, detached>>
    /\ IF LimitRejected(limit)
       THEN outcome' = "error" /\ UNCHANGED <<bufferLimit, queue>>
       ELSE /\ bufferLimit' = limit
            /\ outcome' = "ok"
            /\ queue' = IF Lt(limit, Whole(Len(queue))) /\ limit.d = 1
                        THEN SubSeq(queue, 1, limit.n) ELSE queue

\* setBufferLimit(limit)
setBufferLimit(limit) ==
    /\ sent' = <<>>
    /\ emitted' = <<>>
    /\ UNCHANGED <<queue, isSending, packetDuration, volumeLevel, timers, offered,
                   lastSentId, lastMedia, pacedBy, clearMark, detached>>
    /\ IF LimitRejected(limit)
       THEN outcome' = "error" /\ UNCHANGED bufferLimit
       ELSE bufferLimit' = limit /\ outcome' = "ok"

\* JSON.parse(message.toString()) raises
ParseRaises(message) == message.text = "garbage"

\* reading data.event, or data.mark.name in the case 'mark', raises a TypeError
ReadRaises(message) ==
    \/ message.data = "null"
    \/ message.event = "mark" /\ message.mark = "absent"

\* emit for every message that carries a mark object, whatever its event
EmittedForAnyEvent(message) ==
    IF ~ParseRaises(message) /\ message.data = "object" /\ message.mark = "object"
    THEN <<message.name>> ELSE <<>>

\* the arguments of the calls this.emit('mark', ...) the handler makes
Emitted(message) ==
    IF ~ParseRaises(message) /\ ~ReadRaises(message) /\ message.event = "mark"
    THEN <<message.name>> ELSE <<>>

\* the socket's 'message' handler on message; ok: the listeners of 'mark'
\* return rather than raise
onMessage(message, ok) ==
    /\ emitted' = Emitted(message)
    /\ sent' = <<>>
    /\ outcome' = IF \/ ParseRaises(message)
                     \/ ReadRaises(message)
                     \/ Emitted(message) # <<>> /\ ~ok
                  THEN "logged"      \* caught by the handler's try
                  ELSE "ok"
    /\ UNCHANGED <<queue, isSending, packetDuration, volumeLevel, bufferLimit, timers,
                   offered, lastSentId, lastMedia, pacedBy, clearMark, detached>>

\* the socket closes: the constructor registers handlers for 'error' and
\* 'message' only, so nothing of the session changes
detach ==
    /\ ~detached
    /\ detached' = TRUE
    /\ sent' = <<>>
    /\ emitted' = <<>>
    /\ outcome' = "ok"
    /\ UNCHANGED <<queue, isSending, packetDuration, volumeLevel, bufferLimit, timers,
                   offered, lastSentId, lastMedia, pacedBy, clearMark>>

\* one call or callback, the arguments drawn from the given sets, with at
\* most max calls of media() and mark() in all
Step(payloads, names, volumes, limits, max) ==
    \/ \E payload \in payloads : media(payload, max)
    \/ \E name \in names : mark(name, max)
    \/ \E ok \in BOOLEAN : clear(ok)
    \/ \E volume \in volumes : setVolume(volume)
    \/ \E limit \in limits : setBufferLimit(limit)
    \/ TimerFires

Next == Step(Payloads, MarkNames, Volumes, Limits, MaxOffers)

Spec == Init /\ [][Next]_vars

\* setTimeout callbacks that are pending do run
FairSpec == Spec /\ WF_vars(TimerFires)

\* The burst scenario: one capacity, many offers of one payload or mark
BurstNext ==
    Step({<<8, 4, 57>>}, MarkNames, {Whole(1)}, {Whole(BurstCapacity)}, BurstOffers)

BurstSpec == Init /\ [][BurstNext]_vars

\* The argument-checking scenario: every kind of argument of setVolume and
\* setBufferLimit, few offers
\* the arguments of setVolume and of setBufferLimit tried there: those of
\* Volumes and Limits, and -1/2, 3/2, NaN and a value that is not a number;
\* for setVolume also the double next below 1/2 and the double next above 1
ConfigVolumes ==
    Volumes \cup {Num(-1, 2), NaN, NotANumber,
                  [Num(1, 2) EXCEPT !.ulp = -1], [Whole(1) EXCEPT !.ulp = 1]}
ConfigLimits == Limits \cup {Num(3, 2), NaN, NotANumber}

ConfigNext == Step({<<8, 4, 57>>}, MarkNames, ConfigVolumes, ConfigLimits, ConfigOffers)

ConfigSpec == Init /\ [][ConfigNext]_vars

\* The pacing scenario: packets of 20 ms and 10 ms, empty packets and marks
PacingNext ==
    Step(ScenarioPayloads \cup {<<>>}, MarkNames, {Whole(1)}, {Whole(DefaultBufferLimit)},
         MaxOffers)

PacingSpec == Init /\ [][PacingNext]_vars

\* The rounding scenario: packets of 1001/16 ms, empty packets and marks
RoundingNext ==
    Step({Packet2002, <<>>}, MarkNames, {Whole(1)}, {Whole(DefaultBufferLimit)},
         RoundingOffers)

RoundingSpec == Init /\ [][RoundingNext]_vars

\* The socket scenario: one payload, marks, inbound messages and the close
\* of the socket
SocketNext ==
    \/ Step({<<8, 4, 57>>}, MarkNames, {Whole(1)}, {Whole(DefaultBufferLimit)}, MaxOffers)
    \/ \E message \in InboundMessages, ok \in BOOLEAN : onMessage(message, ok)
    \/ detach

SocketSpec == Init /\ [][SocketNext]_vars

-----------------------------------------------------------------------------
(* Properties *)

\* the offer numbers of the items of q, in queue order
Ids(q) == [k \in DOMAIN q |-> q[k].id]

\* the step is a call of media() or mark()
IsOffer == offered' = offered + 1

\* the step hands an item of the queue to socket.send
HandsItem == sent' # <<>> /\ sent'[1].event # "clear"

\* the step is a call of clear()
IsClear == sent' # <<>> /\ sent'[1].event = "clear"

\* the queue is longer than an integer capacity allows
OverCapacity == Gt(Whole(Len(queue)), bufferLimit)

\* C1 as stated: in every reachable state the queue length is at most the
\* capacity, also after the capacity was changed while items were queued.
C1_LengthWithinCapacity ==
    bufferLimit.kind = "num" => Len(queue) <= bufferLimit.n

\* C1 amended: no call of media() or mark() and no drain makes the queue longer
\* than an integer capacity; the queue is over capacity only from a call of
\* setBufferLimit that lowers the capacity below the current length.
C1_OverCapacityOnlyBySetBufferLimit ==
    [][OverCapacity' => (OverCapacity \/ bufferLimit' # bufferLimit)]_vars

\* the queue is full at capacity 2 and the last offer was dropped
C1_Witness ==
    /\ bufferLimit = Whole(2)
    /\ Len(queue) = 2
    /\ outcome = "dropped"

\* C2: an offer made while length >= capacity is rejected and leaves the queue,
\* sendingState, lastPacketDurationMs and the pending timer as they were; an
\* offer made while length < capacity is appended at the tail; and as long as
\* nothing was drained or cleared, with the capacity n (set while at most n
\* items were queued) the queue holds exactly the first min(k, n) of the k
\* offers made, in offer order.
C2_DropNewest ==
    [][/\ (IsOffer /\ bufferLimit.kind = "num" /\ Len(queue) >= bufferLimit.n)
            => /\ UNCHANGED <<queue, isSending, packetDuration, timers>>
               /\ outcome' = "dropped"
       /\ (IsOffer /\ bufferLimit.kind = "num" /\ Len(queue) < bufferLimit.n)
            => /\ Ids(queue') = Append(Ids(queue), offered')
               /\ SubSeq(queue', 1, Len(queue)) = queue
               /\ outcome' = "ok"
       /\ (/\ lastSentId' = 0
           /\ clearMark' = 0
           /\ bufferLimit' = Whole(BurstCapacity)
           /\ Len(queue') <= BurstCapacity)
            => Ids(queue') = [k \in 1..(IF offered' < BurstCapacity THEN offered'
                                        ELSE BurstCapacity) |-> k]
      ]_vars

\* capacity 2, 5 offers before any drain: offers 1 and 2 are queued, the
\* other 3 were dropped
C2_Witness ==
    /\ bufferLimit = Whole(2)
    /\ offered = 5
    /\ lastSentId = 0
    /\ clearMark = 0
    /\ Ids(queue) = <<1, 2>>
    /\ offered - Len(queue) = 3
    /\ outcome = "dropped"

\* C3: the items handed to the transport are handed over in admission order:
\* each one was in the queue, was admitted after every item handed over
\* before it and before every item still queued, whatever its kind.
C3_Fifo ==
    [][HandsItem =>
        /\ Len(sent') = 1
        /\ \E k \in DOMAIN queue :
              /\ queue[k].id = sent'[1].id
              /\ queue[k].event = sent'[1].event
        /\ sent'[1].id > lastSentId
        /\ \A k \in DOMAIN queue' : queue'[k].id > sent'[1].id
        /\ lastSentId' = sent'[1].id
      ]_vars

\* a mark admitted between two media items was handed over after the first
\* and the second is still queued
C3_Witness ==
    /\ sent # <<>>
    /\ sent[1].event = "mark"
    /\ sent[1].id = 2
    /\ Len(queue) = 1
    /\ queue[1].event = "media"
    /\ queue[1].id = 3
    /\ offered = 3

\* C4: at most one drain timer is pending, and a call of media() or mark()
\* made while the pacer is Sending schedules no timer and leaves sendingState
\* and lastPacketDurationMs as they were.
C4_SingleDrain ==
    [][/\ Len(timers') <= 1
       /\ (IsOffer /\ isSending)
            => UNCHANGED <<timers, isSending, packetDuration>>
      ]_vars

\* an item was admitted while a drain timer was pending
C4_Witness ==
    /\ isSending
    /\ Len(timers) = 1
    /\ Len(queue) >= 2
    /\ sent = <<>>
    /\ outcome = "ok"

\* the step runs a pending timer
TimerFired == Len(timers') < Len(timers) \/ HandsItem

\* the offer numbers of the items still queued
Queued == {queue[k].id : k \in DOMAIN queue}

\* C5 as stated: no admitted item is handed to the transport twice, and, the
\* pending drain timers firing, every admitted item eventually leaves the
\* queue (handed to the transport or removed by clear()).
C5_NoItemLostOrSentTwice ==
    /\ [][HandsItem => sent'[1].id > lastSentId]_vars
    /\ \A id \in 1..MaxOffers : (id \in Queued) ~> (id \notin Queued)

\* C6 as stated: every call of clear() leaves the queue empty and hands
\* exactly one clear message to the transport.
C6_ClearEmptiesQueue ==
    [][IsClear => (Len(queue') = 0 /\ Len(sent') = 1)]_vars

\* C7 as stated: no item admitted before a call of clear() is handed to the
\* transport after the clear message of that call; and a drain timer that
\* fires on an empty queue sends nothing, resets lastPacketDurationMs to 0
\* and leaves the pacer Idle.
C7_ClearIsAtomic ==
    [][/\ HandsItem => sent'[1].id > clearMark
       /\ (TimerFired /\ queue = <<>>)
            => (sent' = <<>> /\ packetDuration' = Whole(0) /\ ~isSending')
      ]_vars

\* the delay the pacing rule gives after a media packet with payload p was
\* the last one sent (none: <<>>)
DelayAfter(p) == IF p = <<>> THEN Whole(0) ELSE PacketDurationOf(p)

\* C8 as stated: every drain timer is scheduled with the play duration of the
\* most recently sent media packet as its delay, and with 0 when no media
\* packet was sent since the session was created.
C8_DelayIsLastSentDuration ==
    \A i \in DOMAIN timers : timers[i] = DelayAfter(lastMedia)

\* C8 amended: every drain timer is scheduled with the play duration of the
\* most recently sent media packet with a non-empty payload as its delay, and
\* with 0 when no such packet was sent since the session was created or since
\* a drain timer last fired on an empty queue; after a packet of 640 bytes
\* the delay is 20 ms, after one of 320 bytes it is 10 ms.
C8_PacingLag ==
    /\ \A i \in DOMAIN timers : timers[i] = DelayAfter(pacedBy)
    /\ (timers # <<>> /\ pacedBy = Packet640) => timers = <<Whole(20)>>
    /\ (timers # <<>> /\ pacedBy = Packet320) => timers = <<Whole(10)>>
    /\ (timers # <<>> /\ lastSentId = 0) => timers = <<Whole(0)>>

\* 640, 320 and 640 bytes were admitted before any drain; the first two have
\* been sent, the first after 0 ms, the second after 20 ms, and the third is
\* scheduled after 10 ms
C8_Witness ==
    /\ offered = 3
    /\ clearMark = 0
    /\ Len(queue) = 1
    /\ queue[1].id = 3
    /\ queue[1].raw = Packet640
    /\ lastSentId = 2
    /\ sent = <<sendToTwilio(MediaMessage(2, Packet320), TRUE)>>
    /\ packetDuration = Whole(10)
    /\ timers = <<Whole(10)>>

\* C9 as stated: whenever the pacer is Idle and the queue is empty,
\* lastPacketDurationMs is 0.
C9_IdleAndEmptyMeansZero ==
    (~isSending /\ queue = <<>>) => packetDuration = Whole(0)

\* the PCM16 samples of a base64 payload
PayloadSamples(payload) == SamplesOf(Base64Decode(payload))

\* C10 as stated: every sample of a media payload admitted under a gain g in
\* [0,1] is queued as clamp(floor(s * g), -32768, 32767), s being the sample
\* submitted, and the payload handed to the transport is the queued one.
C10_GainApplied ==
    [][/\ (/\ IsOffer
           /\ Len(queue') = Len(queue) + 1
           /\ queue'[Len(queue')].event = "media"
           /\ volumeLevel.kind = "num")
            => LET m == queue'[Len(queue')]
               IN  PayloadSamples(m.payload) =
                       [k \in DOMAIN PayloadSamples(m.raw) |->
                           ScaleSample(PayloadSamples(m.raw)[k], volumeLevel)]
       /\ HandsItem => sent'[1].payload = Head(queue).payload
      ]_vars

\* x is a number (not NaN) between 0 and 1
InUnitRange(x) ==
    /\ x.kind = "num"
    /\ 0 <= x.n
    /\ x.n < x.d \/ (x.n = x.d /\ x.ulp <= 0)

\* x is a number (not NaN) below 0
Negative(x) == x.kind = "num" /\ x.n < 0

\* C11 as stated: every call of setVolume with an argument that is not a
\* number between 0 and 1 (negative, above 1, NaN, not of type number) raises
\* and leaves the stored gain, the queue, sendingState and
\* lastPacketDurationMs as they were; and the stored gain is between 0 and 1
\* in every reachable state.
C11_SetVolumeValidates ==
    /\ [][\A volume \in ConfigVolumes :
            (setVolume(volume) /\ ~InUnitRange(volume))
                => /\ outcome' = "error"
                   /\ UNCHANGED <<volumeLevel, queue, isSending, packetDuration>>
         ]_vars
    /\ []InUnitRange(volumeLevel)

\* C12: every call of setBufferLimit with a negative argument or one that is
\* not of type number raises and leaves all of the session state as it was;
\* every other call stores exactly its argument as the capacity and leaves
\* the queue, sendingState, lastPacketDurationMs, the gain and the pending
\* timer as they were, and sends nothing.
C12_SetBufferLimitValidates ==
    [][\A limit \in ConfigLimits :
          setBufferLimit(limit)
              => IF Negative(limit) \/ limit.kind = "str"
                 THEN /\ outcome' = "error"
                      /\ UNCHANGED <<bufferLimit, queue, isSending, packetDuration,
                                     volumeLevel, timers>>
                 ELSE /\ outcome' = "ok"
                      /\ bufferLimit' = limit
                      /\ sent' = <<>>
                      /\ UNCHANGED <<queue, isSending, packetDuration, volumeLevel,
                                     timers>>
      ]_vars

\* the capacity was set to 3/2 while one item was queued and its timer
\* pending, and a later call with a bad argument raised: the item is still
\* queued and the capacity still 3/2
C12_Witness ==
    /\ bufferLimit = Num(3, 2)
    /\ Len(queue) = 1
    /\ timers # <<>>
    /\ sent = <<>>
    /\ outcome = "error"

\* the play duration in ms of len bytes of audio, (len / (1 * 2)) / 16000 * 1000,
\* each / and * giving a double
PlayDurationMs(len) ==
    IF len = 0 THEN Whole(0)
    ELSE NumberOf[FloatMul[FloatDiv[FloatDiv[FloatOf[len], 1 * 2], 16000], 1000],
                  len * 1000, 1 * 2 * 16000]

\* the step hands a media item of the queue to socket.send
HandsMedia == HandsItem /\ sent'[1].event = "media"

\* C13 as stated: whenever a media item is drained, whatever the length L >= 0
\* of its decoded payload (0 included), lastPacketDurationMs right after the
\* drain is (L / (1 * 2)) / 16000 * 1000 (20 for 640 bytes, 500 for 16000),
\* and it has that value also when the hand-over to the transport raises.
C13_DurationFromPayloadLength ==
    [][HandsMedia =>
        LET L == Len(Base64Decode(sent'[1].payload))
        IN  /\ packetDuration' = PlayDurationMs(L)
            /\ (L = 640 => packetDuration' = Whole(20))
            /\ (L = 16000 => packetDuration' = Whole(500))
      ]_vars

\* C14: draining a mark leaves lastPacketDurationMs as it was, so does a call
\* of clear(), and lastPacketDurationMs is always 0 or the play duration of
\* a media item that was handed to the transport.
C14_MarkAndClearKeepDuration ==
    [][/\ (HandsItem /\ sent'[1].event = "mark") => packetDuration' = packetDuration
       /\ IsClear => packetDuration' = packetDuration
       /\ \/ packetDuration' = Whole(0)
          \/ /\ lastMedia' # <<>>
             /\ packetDuration' = PlayDurationMs(Len(Base64Decode(lastMedia')))
      ]_vars

\* a mark was drained after a packet of 2002 bytes: the duration is still
\* the double next below 1001/16 ms
C14_Witness ==
    /\ sent # <<>>
    /\ sent[1].event = "mark"
    /\ lastMedia = Packet2002
    /\ packetDuration = [Num(1001, 16) EXCEPT !.ulp = -1]
    /\ Lt(packetDuration, Num(1001, 16))

\* the inbound message is a mark echo: it parses to an object with event
\* "mark" and a mark object that has a name
IsMarkEcho(message) ==
    /\ message.text = "json"
    /\ message.data = "object"
    /\ message.event = "mark"
    /\ message.mark = "object"
    /\ message.name.defined

\* the inbound message has another event value, or none
HasOtherEvent(message) ==
    message.text = "json" /\ message.data = "object" /\ message.event # "mark"

\* the inbound message does not parse, or parses to null, or has event
\* "mark" and no mark object
IsMalformed(message) ==
    \/ message.text # "json"
    \/ message.data # "object"
    \/ message.event = "mark" /\ message.mark # "object"

\* C15: the handler emits 'mark' exactly once, with the name, for an inbound
\* mark echo; for a message with another event value and for a malformed one
\* it emits nothing; in every case no error leaves the handler, nothing is
\* sent, and the queue, sendingState, lastPacketDurationMs, the gain, the
\* capacity and the pending timer are as they were.
C15_InboundMarkEcho ==
    [][\A message \in InboundMessages, ok \in BOOLEAN :
          onMessage(message, ok)
              => /\ IsMarkEcho(message)
                      => emitted' = <<[defined |-> TRUE, value |-> message.name.value]>>
                 /\ (HasOtherEvent(message) \/ IsMalformed(message))
                      => emitted' = <<>>
                 /\ outcome' \in {"ok", "logged"}
                 /\ sent' = <<>>
                 /\ UNCHANGED <<queue, isSending, packetDuration, volumeLevel,
                                bufferLimit, timers>>
      ]_vars

\* the echo of "chunk1" arrived while an item was queued and its timer pending
C15_Witness ==
    /\ emitted = <<[defined |-> TRUE, value |-> "chunk1"]>>
    /\ Len(queue) = 1
    /\ isSending
    /\ Len(timers) = 1

\* C17 as stated: once the socket has closed the queue is empty, no drain
\* timer is scheduled any more and nothing is handed to the transport any
\* more, whatever was queued or pending when it closed.
C17_TeardownStopsDraining ==
    [][/\ detached' => queue' = <<>>
       /\ detached
            => /\ sent' = <<>>
               /\ \/ timers' = timers
                  \/ Len(timers') < Len(timers)
      ]_vars

\* C16: when socket.send raises while the pacer drains an item, the item is
\* the head of the queue and has been taken off it, the items behind it are
\* left in their order, no item that was handed to the transport is in the
\* queue again, and no item is handed over a second time.
C16_SendFailureNotRetried ==
    [][/\ (HandsItem /\ ~sent'[1].ok)
            => /\ sent'[1].id = Head(queue).id
               /\ queue' = Tail(queue)
               /\ outcome' = "caught"
       /\ HandsItem => sent'[1].id > lastSentId
       /\ \A id \in Queued' : id > lastSentId'
      ]_vars

\* the send of the first of three items raised: the other two are queued in
\* their order
C16_Witness ==
    /\ sent # <<>>
    /\ sent[1].id = 1
    /\ ~sent[1].ok
    /\ outcome = "caught"
    /\ Ids(queue) = <<2, 3>>

\* C18 as stated: between operations isSending is true exactly if one drain
\* timer is pending, and a non-empty queue implies isSending, also after a
\* drain in which socket.send raised.
C18_PacerNeverStuck ==
    /\ isSending <=> Len(timers) = 1
    /\ queue # <<>> => isSending

\* the last step was a call of clear()
AfterClear == sent # <<>> /\ sent[1].event = "clear"

\* C19 as stated: when clear() was called while a drain timer was pending and
\* the next step admits an item, no second timer is scheduled and the pending
\* one keeps its delay, the new item is the one the pending timer will send
\* (the head of the queue), and it was not handed over before and was
\* admitted after the clear message; and a timer that fires on a non-empty
\* queue hands over the head and takes it off the queue.
C19_AdmissionAfterRacingClear ==
    [][/\ (IsClear /\ timers # <<>>) => timers' = timers
       /\ (AfterClear /\ timers # <<>> /\ IsOffer /\ outcome' = "ok")
            => /\ timers' = timers
               /\ isSending'
               /\ Head(queue').id = offered'
               /\ offered' > lastSentId'
               /\ offered' > clearMark'
       /\ (TimerFired /\ queue # <<>>)
            => /\ HandsItem
               /\ sent'[1].id = Head(queue).id
               /\ sent'[1].id \notin Queued'
      ]_vars

\* C20: a call setBufferLimit(n) with n below the queue length removes no
\* item, sends nothing and leaves the pending timer; the items queued are
\* handed over from the head, in admission order; every offer made while
\* the length is n or more is dropped and leaves the queue as it is, and an
\* offer made once the length is below n is admitted.
C20_LoweringNeverEvicts ==
    [][/\ \A limit \in Limits :
            (setBufferLimit(limit) /\ Lt(limit, Whole(Len(queue))))
                => /\ queue' = queue
                   /\ sent' = <<>>
                   /\ timers' = timers
                   /\ isSending' = isSending
       /\ (IsOffer /\ Ge(Whole(Len(queue)), bufferLimit))
            => (outcome' = "dropped" /\ queue' = queue)
       /\ (IsOffer /\ Lt(Whole(Len(queue)), bufferLimit))
            => (outcome' = "ok" /\ Ids(queue') = Append(Ids(queue), offered'))
       /\ HandsItem => (sent'[1].id = Head(queue).id /\ queue' = Tail(queue))
      ]_vars

\* the capacity was lowered to 1 while 3 items were queued; one was drained
\* since, two are still queued in their order
C20_Witness ==
    /\ bufferLimit = Whole(1)
    /\ Ids(queue) = <<2, 3>>
    /\ lastSentId = 1
    /\ sent # <<>>
    /\ sent[1].id = 1

=============================================================================
